---------------------------- MODULE Spec2Model ----------------------------
(***************************************************************************)
(* The repositioning planner CrocReposition                                *)
(* (apps/frontend/.../LeaderboardPointsPage.types.ts, lines 49-230)        *)
(* and the quote effect of the convert page (.../ConvertPage.tsx),         *)
(* each with a specification of its own: Spec and ConvertSpec.             *)
(*                                                                         *)
(* Number representation.  The planner computes with IEEE-754 doubles      *)
(* (impact, balance fractions, prices) and with arbitrary precision        *)
(* integers (BigNumber).  In this module                                   *)
(*   - a fraction f is the integer f * Unit (Unit = 100000), standing for  *)
(*     the double nearest to f;                                            *)
(*   - a price p is the integer p * 1000;                                  *)
(*   - a BigNumber is an integer.                                          *)
(* Where the double result of an expression of the code differs from the   *)
(* exact result on the inputs of the model, the difference is tabulated    *)
(* (Ieee754RoundsDown).                                                    *)
(***************************************************************************)
EXTENDS Integers, Sequences, FiniteSets, Bags, TLC

VARIABLES
    pool,        \* the pool's live state (the chain): an index of PoolStates
    moves,       \* number of pool price changes so far
    burnRange,   \* this.burnRange   <<lowerTick, upperTick>>
    mintRange,   \* this.mintRange   "ambient" is <<>> ; a range is <<lo, hi>>
    liquidity,   \* this.liquidity
    impactOpt,   \* opts.impact as the caller gave it: <<>> absent, <<x>> given
    impact,      \* this.impact
    spotPrice,   \* this.spotPrice  (a promise) [st, val, err]
    spotTick,    \* this.spotTick   (a promise) [st, val, err]
    calls,       \* the public method calls of this instance:
                 \* method -> [st, res, ext]
    dexLog,      \* the calls made on the settlement contract handle, in
                 \* order, each with the answer it got
    work,        \* method -> the bag of the stages and collaborator functions
                 \* its call has executed
    \* the convert page (ConvertPage.tsx)
    sourceToken,       \* useState(defaultSourceToken)
    destinationToken,  \* useState('')   "" is no token chosen
    weiAmount,         \* useWeiAmountInput('')   0 is the empty input
    quote,             \* useState('')   <<>> is the empty quote
    route,             \* useState<SwapRoute | undefined>()   <<>> is undefined
    hasQuoteError,     \* useState(false)
    requests,          \* the runs of the quote effect that went on to ask
                       \* for a quote, in order: [src, dst, amt, st]
    conversions,       \* what the confirm button handed to the conversion,
                       \* in order: [src, dst, amt, route, st]
    inputChanges       \* number of user actions on the page so far

\* the planner's variables
planner == <<pool, moves, burnRange, mintRange, liquidity, impactOpt, impact,
             spotPrice, spotTick, calls, dexLog, work>>

\* the convert page's variables
convertPage == <<sourceToken, destinationToken, weiAmount, quote, route,
                 hasQuoteError, requests, conversions, inputChanges>>

vars == <<planner, convertPage>>

-----------------------------------------------------------------------------
(* Bounds of the model *)

\* pool price changes during one planner's life
MaxPoolMoves == 1

\* public method calls made on one planner instance
MaxCalls == 2

-----------------------------------------------------------------------------
(* Number representation *)

\* the denominator of the swap fraction (lines 116 and 220)
BasisPoints == 10000

\* fractions are kept one decimal digit finer than the swap fraction
Unit == 10 * BasisPoints

Min(a, b) == IF a <= b THEN a ELSE b

Abs(a) == IF a < 0 THEN -a ELSE a

\* Math.floor(a / b), b > 0
FloorDiv(a, b) == a \div b

\* BigNumber.div: truncation toward zero, b > 0
BigDiv(a, b) == IF a >= 0 THEN a \div b ELSE -((-a) \div b)

-----------------------------------------------------------------------------
(* Collaborators outside the planner (utils, utils/liquidity, tokens) *)

\* tickToPrice: Math.pow(1.0001, tick), to three decimals
tickToPrice(tick) ==
    CASE tick = 50  -> 1005
      [] tick = 100 -> 1010
      [] tick = 150 -> 1015
      [] tick = 200 -> 1020
      [] tick = 250 -> 1025

\* The fraction of a position over [lowerPrice, upperPrice] held as base at
\* spotPrice: 0 or 1 outside the range, an interpolation inside it.
concDepositBalance(price, lowerPrice, upperPrice) ==
    IF price < lowerPrice THEN 0
    ELSE IF price > upperPrice THEN Unit
    ELSE FloorDiv((price - lowerPrice) * Unit, upperPrice - lowerPrice)

\* The base amount a liquidity magnitude over [lowerPrice, upperPrice]
\* converts to: a non-negative integer fixed by the four arguments.
baseTokenForConcLiq(price, liq, lowerPrice, upperPrice) ==
    FloorDiv(liq * (upperPrice - lowerPrice), price)

\* The quote amount, symmetric.
quoteTokenForConcLiq(price, liq, lowerPrice, upperPrice) ==
    FloorDiv(liq * (upperPrice - lowerPrice), 2 * price)

\* encodeCrocPrice: the pool's native (square root, Q64.64) representation
\* of a price; kept as the application to its argument, a price in units
\* of 1 / (1000 * Unit).
encodeCrocPrice(price) == [crocPriceOf |-> price]

\* CrocTokenView.toDisplay: the decimal string of an integer amount of a
\* token, kept as the token and the integer it was formatted from.
toDisplay(token, qty) == [token |-> token, units |-> qty]

\* The pool's two tokens
BaseToken == "base"

QuoteToken == "quote"

\* CrocSwapPlan.calcImpact().buyQty: the projected output of selling qty of
\* sellToken at the pool's live price.
calcImpactBuyQty(sellToken, buyToken, qty, livePrice) ==
    IF sellToken = BaseToken
    THEN toDisplay(buyToken, BigDiv(qty * 1000, livePrice))
    ELSE toDisplay(buyToken, BigDiv(qty * livePrice, 1000))

\* The chain's pool index and the proxy path of long-form directives
\* (pool.context.chain), fixed for the life of the context.
PoolIndex == "chain.poolIndex"

LongPath == "chain.proxyPaths.long"

\* The gas the settlement contract's estimator may answer with
GasEstimates == {250000}

\* GAS_PADDING of utils: the fixed margin added to the gas estimate
GAS_PADDING == 30000

-----------------------------------------------------------------------------
(* Inputs *)

AMBIENT == <<>>

BurnRanges == {<<100, 200>>}

MintTargets == {AMBIENT, <<50, 100>>, <<200, 250>>}

Liquidities == {1000000}

\* opts.impact absent (opts = {} or { impact: undefined })
NoImpact == <<>>

\* -0.6, 0, 0.18, 0.6 (0.02 is the default, taken when the option is
\* absent)
ImpactValues == {-60000, 0, 18000, 60000}

ImpactOpts == {NoImpact} \cup {<<x>> : x \in ImpactValues}

\* The pool's live states in the order of their price: a tick and a price
\* inside that tick
PoolStates ==
    << [tick |-> 50,  price |-> 1007],
       [tick |-> 100, price |-> 1010],
       [tick |-> 150, price |-> 1015],
       [tick |-> 200, price |-> 1020],
       [tick |-> 200, price |-> 1022],
       [tick |-> 250, price |-> 1025] >>

-----------------------------------------------------------------------------
(* encoding/longform: OrderDirective and its append operations.  A directive
   is [open, hops]; a hop is [settlement, pools]; a pool leg is
   [poolIdx, ambient, concentrated, swap, chain]. *)

\* The limit a settlement leg starts with (no limit: the largest quantity)
DefaultLimitQty == 2147483647

simpleSettle(token) ==
    [token |-> token, limitQty |-> DefaultLimitQty, dustThresh |-> 0,
     useSurplus |-> FALSE]

OrderDirective(openToken) ==
    [open |-> simpleSettle(openToken), hops |-> <<>>]

appendHop(directive, nextToken) ==
    [directive EXCEPT !.hops =
        Append(@, [settlement |-> simpleSettle(nextToken), pools |-> <<>>])]

\* A pool leg as appendPool creates it: nothing minted, burned or swapped
emptyPool(poolIdx) ==
    [poolIdx |-> poolIdx,
     ambient |-> [isAdd |-> FALSE, rollType |-> 0, liquidity |-> 0],
     concentrated |-> <<>>,
     swap |-> [isBuy |-> FALSE, inBaseQty |-> FALSE, rollType |-> 0,
               qty |-> 0, limitPrice |-> encodeCrocPrice(0)],
     chain |-> [rollExit |-> FALSE, swapDefer |-> FALSE,
                offsetSurplus |-> FALSE]]

\* appendPool: a new pool leg at the end of the last hop
appendPool(directive, poolIdx) ==
    [directive EXCEPT !.hops[Len(directive.hops)].pools =
        Append(@, emptyPool(poolIdx))]

\* The last pool leg of the last hop, which the mint and burn appends act on
lastPool(directive) ==
    LET hop == directive.hops[Len(directive.hops)]
    IN  hop.pools[Len(hop.pools)]

withLastPool(directive, leg) ==
    LET h == Len(directive.hops)
    IN  [directive EXCEPT !.hops[h].pools[Len(directive.hops[h].pools)] = leg]

concentratedLeg(lowTick, highTick, liq, isAdd, rollType) ==
    [lowTick |-> lowTick, highTick |-> highTick, isRelTick |-> FALSE,
     isAdd |-> isAdd, rollType |-> rollType, liquidity |-> Abs(liq)]

\* appendRangeMint(lowTick, highTick, liq), whose caller then sets rollType
appendRangeMint(directive, lowTick, highTick, liq, rollType) ==
    withLastPool(directive,
        [lastPool(directive) EXCEPT !.concentrated =
            Append(@, concentratedLeg(lowTick, highTick, liq, TRUE, rollType))])

\* appendRangeBurn: a range leg with isAdd false
appendRangeBurn(directive, lowTick, highTick, liq) ==
    withLastPool(directive,
        [lastPool(directive) EXCEPT !.concentrated =
            Append(@, concentratedLeg(lowTick, highTick, liq, FALSE, 0))])

\* appendAmbientMint(liq), whose caller then sets rollType
appendAmbientMint(directive, liq, rollType) ==
    withLastPool(directive,
        [lastPool(directive) EXCEPT !.ambient =
            [isAdd |-> TRUE, rollType |-> rollType, liquidity |-> Abs(liq)]])

\* OrderDirective.encodeBytes: the wire form, kept as the directive encoded
encodeBytes(directive) == [bytesOf |-> directive]

-----------------------------------------------------------------------------
(* Outcomes of an asynchronous computation: a value, an error, or still
   waiting for a promise that has not settled. *)

Ok(v) == [kind |-> "ok", val |-> v]

Err(e) == [kind |-> "err", err |-> e]

Wait == [kind |-> "wait"]

None == [kind |-> "none"]

IsOk(r) == r.kind = "ok"

\* await r, then F of its value: an error or a pending promise ends the chain
Then(r, F(_)) == IF r.kind = "ok" THEN F(r.val) ELSE r

\* await of a promise held in a field: its value, or the error it was
\* rejected with
Await(promise) ==
    CASE promise.st = "pending"  -> Wait
      [] promise.st = "rejected" -> Err(promise.err)
      [] promise.st = "resolved" -> Ok(promise.val)

\* The errors of the remote reads, one for each read that can fail
SpotPriceFailure == "RemoteReadFailure: pool.spotPrice()"

SpotTickFailure == "RemoteReadFailure: pool.spotTick()"

CalcImpactFailure == "RemoteReadFailure: swap.calcImpact()"

EstimateGasFailure == "RemoteReadFailure: dex.estimateGas.userCmd()"

CallStaticFailure == "RemoteReadFailure: dex.callStatic.userCmd()"

\* The error of a failed submission
SubmissionFailure == "SubmissionFailure: dex.userCmd()"

NoError == "none"

PositionNotOutOfRange == "Rebalance position not out of range"

-----------------------------------------------------------------------------
(* CrocReposition: the constructor's defaults and the derived stages *)

DEFAULT_REBAL_SLIPPAGE == 2000

\* opts?.impact || DEFAULT_REBAL_SLIPPAGE  (line 61)
impactOf(opt) ==
    IF opt = NoImpact THEN DEFAULT_REBAL_SLIPPAGE
    ELSE IF opt[1] = 0 THEN DEFAULT_REBAL_SLIPPAGE
    ELSE opt[1]

\* The pair (balance fraction, impact) of the model's inputs on which the
\* double Math.min(bal + impact, 1.0) * 10000 lies just below the exact
\* product, so that Math.floor gives one less:
\*   (0.5 + 0.18) * 10000 = 6799.999999999999
Ieee754RoundsDown == {<<50000, 18000>>}

\* Math.floor(Math.min(swapProp, 1.0) * 10000), swapProp = bal + imp
floorOfFraction(bal, imp) ==
    FloorDiv(Min(bal + imp, Unit) * BasisPoints, Unit)
        - (IF <<bal, imp>> \in Ieee754RoundsDown THEN 1 ELSE 0)

\* isBaseOutOfRange with its first comparison against the lower tick
isBaseOutOfRange_lowerFirst ==
    Then(Await(spotTick), LAMBDA spot :
        IF spot >= burnRange[1] THEN Ok(TRUE)
        ELSE IF spot < burnRange[1] THEN Ok(FALSE)
        ELSE Err(PositionNotOutOfRange))

\* isBaseOutOfRange with the upper tick itself taken as in range
isBaseOutOfRange_strictUpper ==
    Then(Await(spotTick), LAMBDA spot :
        IF spot > burnRange[2] THEN Ok(TRUE)
        ELSE IF spot < burnRange[1] THEN Ok(FALSE)
        ELSE Err(PositionNotOutOfRange))

\* isBaseOutOfRange that catches a failed read of the tick and answers false
isBaseOutOfRange_fallback ==
    IF spotTick.st = "rejected" THEN Ok(FALSE)
    ELSE Then(Await(spotTick), LAMBDA spot :
            IF spot >= burnRange[2] THEN Ok(TRUE)
            ELSE IF spot < burnRange[1] THEN Ok(FALSE)
            ELSE Err(PositionNotOutOfRange))

isBaseOutOfRange ==
    Then(Await(spotTick), LAMBDA spot :
        IF spot >= burnRange[2] THEN Ok(TRUE)
        ELSE IF spot < burnRange[1] THEN Ok(FALSE)
        ELSE Err(PositionNotOutOfRange))

\* pivotTokens that ignores the direction
pivotTokens_baseFirst ==
    Then(isBaseOutOfRange, LAMBDA baseOut : Ok(<<BaseToken, QuoteToken>>))

pivotTokens ==
    Then(isBaseOutOfRange, LAMBDA baseOut :
        Ok(IF baseOut THEN <<BaseToken, QuoteToken>>
                      ELSE <<QuoteToken, BaseToken>>))

\* balancePercent that asks for the direction before the ambient shortcut
balancePercent_directionFirst ==
    Then(isBaseOutOfRange, LAMBDA baseOut :
        IF mintRange = AMBIENT
        THEN Ok(Unit \div 2)
        ELSE Then(Await(spotPrice), LAMBDA price :
             LET baseQuoteBal == concDepositBalance(price,
                                     tickToPrice(mintRange[1]),
                                     tickToPrice(mintRange[2]))
             IN  Ok(IF baseOut THEN Unit - baseQuoteBal ELSE baseQuoteBal)))

\* balancePercent without the inversion for base out of range
balancePercent_noInversion ==
    IF mintRange = AMBIENT
    THEN Ok(Unit \div 2)
    ELSE Then(Await(spotPrice), LAMBDA price :
         LET baseQuoteBal == concDepositBalance(price,
                                 tickToPrice(mintRange[1]),
                                 tickToPrice(mintRange[2]))
         IN  Then(isBaseOutOfRange, LAMBDA baseOut : Ok(baseQuoteBal)))

balancePercent ==
    IF mintRange = AMBIENT
    THEN Ok(Unit \div 2)
    ELSE Then(Await(spotPrice), LAMBDA price :
         LET baseQuoteBal == concDepositBalance(price,
                                 tickToPrice(mintRange[1]),
                                 tickToPrice(mintRange[2]))
         IN  Then(isBaseOutOfRange, LAMBDA baseOut :
                 Ok(IF baseOut THEN Unit - baseQuoteBal ELSE baseQuoteBal)))

\* swapFraction without the clamp to 1.0
swapFraction_unclamped ==
    Then(balancePercent, LAMBDA bal :
        Ok(FloorDiv((bal + impact) * BasisPoints, Unit)))

swapFraction ==
    Then(balancePercent, LAMBDA bal : Ok(floorOfFraction(bal, impact)))

\* currentCollateral that reads the pool's live price instead of the snapshot
currentCollateral_livePrice ==
    Then(isBaseOutOfRange, LAMBDA baseOut :
        Ok(IF baseOut
           THEN baseTokenForConcLiq(PoolStates[pool].price, liquidity,
                    tickToPrice(burnRange[1]), tickToPrice(burnRange[2]))
           ELSE quoteTokenForConcLiq(PoolStates[pool].price, liquidity,
                    tickToPrice(burnRange[1]), tickToPrice(burnRange[2]))))

currentCollateral ==
    Then(isBaseOutOfRange, LAMBDA baseOut :
    Then(Await(spotPrice), LAMBDA price :
        Ok(IF baseOut
           THEN baseTokenForConcLiq(price, liquidity,
                    tickToPrice(burnRange[1]), tickToPrice(burnRange[2]))
           ELSE quoteTokenForConcLiq(price, liquidity,
                    tickToPrice(burnRange[1]), tickToPrice(burnRange[2])))))

\* convertCollateral that takes the fraction as parts of 1000
convertCollateral_perMille ==
    Then(swapFraction, LAMBDA balance :
    Then(currentCollateral, LAMBDA collat :
        Ok(BigDiv(collat * balance, 1000))))

\* collat.mul(balance).div(10000)
convertCollateral ==
    Then(swapFraction, LAMBDA balance :
    Then(currentCollateral, LAMBDA collat :
        Ok(BigDiv(collat * balance, BasisPoints))))

\* mintInputUnits as the complementary fraction of the collateral, rounded
\* on its own
mintInputUnits_ownRounding ==
    Then(currentCollateral, LAMBDA cur :
    Then(swapFraction, LAMBDA balance :
        Ok(BigDiv(cur * (BasisPoints - balance), BasisPoints))))

\* The integer mintInput hands to toDisplay: currentCollateral().sub(
\* convertCollateral())
mintInputUnits ==
    Then(currentCollateral, LAMBDA cur :
    Then(convertCollateral, LAMBDA conv : Ok(cur - conv)))

mintInput ==
    Then(mintInputUnits, LAMBDA collat :
    Then(isBaseOutOfRange, LAMBDA baseOut :
        Ok(IF baseOut THEN toDisplay(BaseToken, collat)
                      ELSE toDisplay(QuoteToken, collat))))

\* The CrocSwapPlan swapOutput constructs (lines 140-148)
swapPlan ==
    Then(pivotTokens, LAMBDA toks :
    Then(convertCollateral, LAMBDA qty :
        Ok([sellToken |-> toks[1], buyToken |-> toks[2], qty |-> qty,
            qtyIsBuy |-> FALSE, poolIdx |-> PoolIndex,
            slippage |-> impact])))

\* swapOutput, its calcImpact simulated at the pool's live price
swapOutput ==
    Then(swapPlan, LAMBDA plan :
        Ok(calcImpactBuyQty(plan.sellToken, plan.buyToken, plan.qty,
                            PoolStates[pool].price)))

\* parseFloat of a display string: the number it denotes, kept as the amount
\* in the token's smallest units
parseFloat(display) == display.units

\* postBalance that always puts the remainder first
postBalance_remainderFirst ==
    Then(isBaseOutOfRange, LAMBDA baseOut :
    Then(mintInput, LAMBDA outside :
    Then(swapOutput, LAMBDA inside :
        Ok(<<parseFloat(outside), parseFloat(inside)>>))))

postBalance ==
    Then(isBaseOutOfRange, LAMBDA baseOut :
    Then(mintInput, LAMBDA outside :
    Then(swapOutput, LAMBDA inside :
        Ok(IF baseOut THEN <<parseFloat(outside), parseFloat(inside)>>
                      ELSE <<parseFloat(inside), parseFloat(outside)>>))))

\* priceMult with the two signs exchanged
priceMult_swapped(sellBase) == IF sellBase THEN Unit - impact ELSE Unit + impact

\* The multiplier of the spot price in the swap's limit (line 214)
priceMult(sellBase) == IF sellBase THEN Unit + impact ELSE Unit - impact

\* setupSwap whose isBuy flag is the opposite of the direction
setupSwap_buyInverted(leg) ==
    Then(swapFraction, LAMBDA qty :
    Then(isBaseOutOfRange, LAMBDA sellBase :
    Then(Await(spotPrice), LAMBDA price :
        Ok([leg EXCEPT !.chain.swapDefer = TRUE,
                       !.swap.rollType = 4,
                       !.swap.qty = qty,
                       !.swap.isBuy = ~sellBase,
                       !.swap.inBaseQty = sellBase,
                       !.swap.limitPrice =
                            encodeCrocPrice(price * priceMult(sellBase))]))))

\* setupSwap on the pool leg it is handed
setupSwap(leg) ==
    Then(swapFraction, LAMBDA qty :
    Then(isBaseOutOfRange, LAMBDA sellBase :
    Then(Await(spotPrice), LAMBDA price :
        Ok([leg EXCEPT !.chain.swapDefer = TRUE,
                       !.swap.rollType = 4,
                       !.swap.qty = qty,
                       !.swap.isBuy = sellBase,
                       !.swap.inBaseQty = sellBase,
                       !.swap.limitPrice =
                            encodeCrocPrice(price * priceMult(sellBase))]))))

\* appendMint that encodes the burnt liquidity as a fixed mint quantity
appendMint_fixedQty(directive) ==
    IF mintRange = AMBIENT
    THEN appendAmbientMint(directive, liquidity, 0)
    ELSE appendRangeMint(directive, mintRange[1], mintRange[2], liquidity, 0)

\* The mint appended to the second pool leg (lines 188-198)
appendMint(directive) ==
    IF mintRange = AMBIENT
    THEN appendAmbientMint(directive, 0, 5)
    ELSE appendRangeMint(directive, mintRange[1], mintRange[2], 0, 5)

\* The limit quantities zeroed at the end (lines 200-201)
zeroLimits(directive) ==
    [directive EXCEPT !.open.limitQty = 0,
                      !.hops[1].settlement.limitQty = 0]

\* formatDirective that appends the mint to the pool leg of the burn
formatDirective_oneLeg ==
    Then(pivotTokens, LAMBDA toks :
        LET opened == appendHop(OrderDirective(toks[1]), toks[2])
            burnt  == appendRangeBurn(appendPool(opened, PoolIndex),
                          burnRange[1], burnRange[2], liquidity)
        IN  Then(setupSwap(lastPool(burnt)), LAMBDA leg :
                Ok(zeroLimits(appendMint(withLastPool(burnt, leg))))))

formatDirective ==
    Then(pivotTokens, LAMBDA toks :
        LET opened == appendHop(OrderDirective(toks[1]), toks[2])
            burnt  == appendRangeBurn(appendPool(opened, PoolIndex),
                          burnRange[1], burnRange[2], liquidity)
        IN  Then(setupSwap(lastPool(burnt)), LAMBDA leg :
                Ok(zeroLimits(appendMint(
                       appendPool(withLastPool(burnt, leg), PoolIndex))))))

-----------------------------------------------------------------------------
(* What a call executes: the bag of the stage bodies it enters and of the
   collaborator functions it calls, following the awaits of each body in
   their order; an await that throws ends the body. *)

Did(f) == SetToBag({f})

isBaseOutOfRangeWork == Did("isBaseOutOfRange")

\* lines 87-97
balancePercentWork ==
    Did("balancePercent") (+)
        (IF mintRange = AMBIENT \/ ~IsOk(Await(spotPrice)) THEN EmptyBag
         ELSE Did("concDepositBalance") (+) isBaseOutOfRangeWork)

\* lines 102-110
currentCollateralWork ==
    Did("currentCollateral") (+) isBaseOutOfRangeWork (+)
        (IF ~IsOk(isBaseOutOfRange) \/ ~IsOk(Await(spotPrice)) THEN EmptyBag
         ELSE IF isBaseOutOfRange.val THEN Did("baseTokenForConcLiq")
         ELSE Did("quoteTokenForConcLiq"))

\* line 219
swapFractionWork == Did("swapFraction") (+) balancePercentWork

\* lines 114-115
convertCollateralWork ==
    swapFractionWork (+)
        (IF IsOk(swapFraction) THEN currentCollateralWork ELSE EmptyBag)

\* lines 128-132
mintInputWork ==
    currentCollateralWork (+)
        (IF ~IsOk(currentCollateral) THEN EmptyBag
         ELSE convertCollateralWork (+)
                (IF IsOk(convertCollateral) THEN isBaseOutOfRangeWork
                 ELSE EmptyBag))

\* line 165
pivotTokensWork == isBaseOutOfRangeWork

\* lines 138-149
swapOutputWork ==
    pivotTokensWork (+)
        (IF ~IsOk(pivotTokens) THEN EmptyBag
         ELSE convertCollateralWork (+)
                (IF IsOk(convertCollateral) THEN Did("calcImpact")
                 ELSE EmptyBag))

\* lines 120-122: mintInput() and swapOutput() are both started before the
\* first await
postBalanceWork == mintInputWork (+) swapOutputWork (+) isBaseOutOfRangeWork

\* lines 208-215; the limit price is stage 5
setupSwapWork ==
    swapFractionWork (+)
        (IF ~IsOk(swapFraction) THEN EmptyBag
         ELSE isBaseOutOfRangeWork (+)
                (IF IsOk(isBaseOutOfRange) THEN Did("limitPrice")
                 ELSE EmptyBag))

\* lines 171-184
formatDirectiveWork ==
    pivotTokensWork (+)
        (IF IsOk(pivotTokens) THEN setupSwapWork ELSE EmptyBag)

-----------------------------------------------------------------------------
(* The state machine: one planner instance, its callers and its pool *)

\* The public methods whose body is one chain of awaits on the planner's own
\* promises
QueryMethods == {"balancePercent", "currentCollateral", "convertCollateral",
                 "postBalance", "mintInput", "swapOutput"}

Methods == QueryMethods \cup {"rebal", "simStatic"}

Pending == [st |-> "pending", val |-> 0, err |-> NoError]

Resolved(v) == [st |-> "resolved", val |-> v, err |-> NoError]

Rejected(e) == [st |-> "rejected", val |-> 0, err |-> e]

Idle == [st |-> "idle", res |-> None, ext |-> None]

\* The tokens the page's selects offer
Tokens == {"BTC", "SOV", "DLLR"}

\* defaultSourceToken (lines 113-125) with no "from" in the address
defaultSourceToken == "BTC"

\* the empty quote '' and the undefined route
NoQuote == <<>>
NoRoute == <<>>

\* The convert page after its first render and the first run of its quote
\* effect, which finds no destination token and asks for nothing
Mounted ==
    /\ sourceToken = defaultSourceToken
    /\ destinationToken = ""
    /\ weiAmount = 0
    /\ quote = NoQuote
    /\ route = NoRoute
    /\ hasQuoteError = FALSE
    /\ requests = <<>>
    /\ conversions = <<>>
    /\ inputChanges = 0

\* The state the constructor leaves (lines 50-62): the fields set, the two
\* reads of the pool issued and not yet answered.
Init ==
    /\ pool \in DOMAIN PoolStates
    /\ moves = 0
    /\ burnRange \in BurnRanges
    /\ mintRange \in MintTargets
    /\ liquidity \in Liquidities
    /\ impactOpt \in ImpactOpts
    /\ impact = impactOf(impactOpt)
    /\ spotPrice = Pending
    /\ spotTick = Pending
    /\ calls = [m \in Methods |-> Idle]
    /\ dexLog = <<>>
    /\ work = [m \in Methods |-> EmptyBag]
    /\ Mounted

\* The pool trades: its price moves to the next lower or higher state
PoolMove ==
    /\ moves < MaxPoolMoves
    /\ \E next \in {pool - 1, pool + 1} \cap DOMAIN PoolStates : pool' = next
    /\ moves' = moves + 1
    /\ UNCHANGED <<convertPage, burnRange, mintRange, liquidity, impactOpt, impact,
                   spotPrice, spotTick, calls, dexLog, work>>

\* The node answers pool.spotPrice() with the price it sees, or fails
SettleSpotPrice ==
    /\ spotPrice.st = "pending"
    /\ \/ spotPrice' = Resolved(PoolStates[pool].price)
       \/ spotPrice' = Rejected(SpotPriceFailure)
    /\ UNCHANGED <<convertPage, pool, moves, burnRange, mintRange, liquidity, impactOpt,
                   impact, spotTick, calls, dexLog, work>>

\* The node answers pool.spotTick() with the tick it sees, or fails
SettleSpotTick ==
    /\ spotTick.st = "pending"
    /\ \/ spotTick' = Resolved(PoolStates[pool].tick)
       \/ spotTick' = Rejected(SpotTickFailure)
    /\ UNCHANGED <<convertPage, pool, moves, burnRange, mintRange, liquidity, impactOpt,
                   impact, spotPrice, calls, dexLog, work>>

Started == {m \in Methods : calls[m].st # "idle"}

\* The outcome of a query method's body
Outcome(m) ==
    CASE m = "balancePercent"    -> balancePercent
      [] m = "currentCollateral" -> currentCollateral
      [] m = "convertCollateral" -> convertCollateral
      [] m = "postBalance"       -> postBalance
      [] m = "mintInput"         -> mintInput
      [] m = "swapOutput"        -> swapOutput

\* The swap plan a query method hands to the swap-impact calculator
PlanOf(m) ==
    IF m \in {"swapOutput", "postBalance"} /\ IsOk(swapPlan)
    THEN swapPlan ELSE None

Settled(r, ext) ==
    [st |-> IF IsOk(r) THEN "returned" ELSE "threw", res |-> r, ext |-> ext]

\* What the body of a public method executes
Work(m) ==
    CASE m = "balancePercent"    -> balancePercentWork
      [] m = "currentCollateral" -> currentCollateralWork
      [] m = "convertCollateral" -> convertCollateralWork
      [] m = "postBalance"       -> postBalanceWork
      [] m = "mintInput"         -> mintInputWork
      [] m = "swapOutput"        -> swapOutputWork
      [] m = "rebal"             -> formatDirectiveWork
      [] m = "simStatic"         -> formatDirectiveWork

\* The outcomes a call of m can have: that of its body, and for a method
\* that runs the swap-impact simulation (line 149) also that simulation's
\* failure
Outcomes(m) ==
    {Outcome(m)} \cup
        (IF PlanOf(m).kind = "ok" THEN {Err(CalcImpactFailure)} ELSE {})

\* A caller's call of a query method, taken at the moment the call gets past
\* its awaits of the planner's promises: it returns or throws
Call(m) ==
    /\ m \in QueryMethods
    /\ calls[m].st = "idle"
    /\ Cardinality(Started) < MaxCalls
    /\ Outcome(m).kind # "wait"
    /\ \E r \in Outcomes(m) :
            calls' = [calls EXCEPT ![m] = Settled(r, PlanOf(m))]
    /\ work' = [work EXCEPT ![m] = Work(m)]
    /\ UNCHANGED <<convertPage, pool, moves, burnRange, mintRange, liquidity, impactOpt,
                   impact, spotPrice, spotTick, dexLog>>

\* A call on the settlement contract handle, not answered yet
DexCall(op, directive, gasLimit) ==
    [op |-> op, path |-> LongPath, data |-> encodeBytes(directive),
     gasLimit |-> gasLimit, answer |-> None]

\* The log with the answer r to its call of op
Answered(log, op, r) ==
    [i \in DOMAIN log |->
        IF log[i].op = op THEN [log[i] EXCEPT !.answer = r] ELSE log[i]]

\* rebal, lines 65-71: the directive is built and its gas estimate requested
RebalFormat ==
    /\ calls["rebal"].st = "idle"
    /\ Cardinality(Started) < MaxCalls
    /\ formatDirective.kind # "wait"
    /\ IF IsOk(formatDirective)
       THEN /\ calls' = [calls EXCEPT !["rebal"] =
                    [st |-> "estimating", res |-> None,
                     ext |-> formatDirective]]
            /\ dexLog' = Append(dexLog,
                    DexCall("estimateGas.userCmd", formatDirective.val, 0))
       ELSE /\ calls' = [calls EXCEPT !["rebal"] =
                    Settled(formatDirective, None)]
            /\ UNCHANGED dexLog
    /\ work' = [work EXCEPT !["rebal"] = Work("rebal")]
    /\ UNCHANGED <<convertPage, pool, moves, burnRange, mintRange, liquidity, impactOpt,
                   impact, spotPrice, spotTick>>

\* rebal, lines 68-74: the estimate arrives and the transaction is submitted,
\* or the estimate fails
RebalEstimated ==
    /\ calls["rebal"].st = "estimating"
    /\ \/ \E gasEst \in GasEstimates :
            /\ calls' = [calls EXCEPT !["rebal"].st = "submitting"]
            /\ dexLog' = Append(
                    Answered(dexLog, "estimateGas.userCmd", Ok(gasEst)),
                    DexCall("userCmd", calls["rebal"].ext.val,
                            gasEst + GAS_PADDING))
       \/ /\ calls' = [calls EXCEPT !["rebal"] =
                    Settled(Err(EstimateGasFailure), @.ext)]
          /\ dexLog' = Answered(dexLog, "estimateGas.userCmd",
                                Err(EstimateGasFailure))
    /\ UNCHANGED <<convertPage, pool, moves, burnRange, mintRange, liquidity, impactOpt,
                   impact, spotPrice, spotTick, work>>

\* rebal that submits a second time when the first submission fails
RebalSubmitted_resubmits ==
    /\ calls["rebal"].st = "submitting"
    /\ \/ /\ calls' = [calls EXCEPT !["rebal"] =
                    Settled(Ok("TransactionResponse"), @.ext)]
          /\ dexLog' = Answered(dexLog, "userCmd", Ok("TransactionResponse"))
       \/ /\ Len(dexLog) < 3
          /\ UNCHANGED calls
          /\ dexLog' = Append(
                    Answered(dexLog, "userCmd", Err(SubmissionFailure)),
                    [dexLog[Len(dexLog)] EXCEPT !.answer = None])
       \/ /\ Len(dexLog) >= 3
          /\ calls' = [calls EXCEPT !["rebal"] =
                    Settled(Err(SubmissionFailure), @.ext)]
          /\ dexLog' = Answered(dexLog, "userCmd", Err(SubmissionFailure))
    /\ UNCHANGED <<convertPage, pool, moves, burnRange, mintRange, liquidity, impactOpt,
                   impact, spotPrice, spotTick, work>>

\* rebal, lines 72-74: the submission is accepted or fails, and rebal's
\* promise settles with that
RebalSubmitted ==
    /\ calls["rebal"].st = "submitting"
    /\ \E r \in {Ok("TransactionResponse"), Err(SubmissionFailure)} :
            /\ calls' = [calls EXCEPT !["rebal"] = Settled(r, @.ext)]
            /\ dexLog' = Answered(dexLog, "userCmd", r)
    /\ UNCHANGED <<convertPage, pool, moves, burnRange, mintRange, liquidity, impactOpt,
                   impact, spotPrice, spotTick, work>>

\* simStatic that asks for a gas estimate before the static call
SimFormat_estimatesGas ==
    /\ calls["simStatic"].st = "idle"
    /\ Cardinality(Started) < MaxCalls
    /\ formatDirective.kind # "wait"
    /\ IF IsOk(formatDirective)
       THEN /\ calls' = [calls EXCEPT !["simStatic"] =
                    [st |-> "simulating", res |-> None,
                     ext |-> formatDirective]]
            /\ dexLog' = dexLog \o
                    << DexCall("estimateGas.userCmd", formatDirective.val, 0),
                       DexCall("callStatic.userCmd", formatDirective.val, 0) >>
       ELSE /\ calls' = [calls EXCEPT !["simStatic"] =
                    Settled(formatDirective, None)]
            /\ UNCHANGED dexLog
    /\ work' = [work EXCEPT !["simStatic"] = Work("simStatic")]
    /\ UNCHANGED <<convertPage, pool, moves, burnRange, mintRange, liquidity, impactOpt,
                   impact, spotPrice, spotTick>>

\* simStatic, lines 78-83: the directive is built and the static call made
SimFormat ==
    /\ calls["simStatic"].st = "idle"
    /\ Cardinality(Started) < MaxCalls
    /\ formatDirective.kind # "wait"
    /\ IF IsOk(formatDirective)
       THEN /\ calls' = [calls EXCEPT !["simStatic"] =
                    [st |-> "simulating", res |-> None,
                     ext |-> formatDirective]]
            /\ dexLog' = Append(dexLog,
                    DexCall("callStatic.userCmd", formatDirective.val, 0))
       ELSE /\ calls' = [calls EXCEPT !["simStatic"] =
                    Settled(formatDirective, None)]
            /\ UNCHANGED dexLog
    /\ work' = [work EXCEPT !["simStatic"] = Work("simStatic")]
    /\ UNCHANGED <<convertPage, pool, moves, burnRange, mintRange, liquidity, impactOpt,
                   impact, spotPrice, spotTick>>

\* simStatic: the static call answers or fails
SimReturned ==
    /\ calls["simStatic"].st = "simulating"
    /\ \E r \in {Ok("simulated"), Err(CallStaticFailure)} :
            /\ calls' = [calls EXCEPT !["simStatic"] = Settled(r, @.ext)]
            /\ dexLog' = Answered(dexLog, "callStatic.userCmd", r)
    /\ UNCHANGED <<convertPage, pool, moves, burnRange, mintRange, liquidity, impactOpt,
                   impact, spotPrice, spotTick, work>>

Next ==
    \/ PoolMove
    \/ SettleSpotPrice
    \/ SettleSpotTick
    \/ \E m \in QueryMethods : Call(m)
    \/ RebalFormat
    \/ RebalEstimated
    \/ RebalSubmitted
    \/ SimFormat
    \/ SimReturned

Spec == Init /\ [][Next]_vars

-----------------------------------------------------------------------------
(* Vocabulary of the properties *)

\* The snapshot spot tick is known and lies in the burn range
InRange ==
    /\ spotTick.st = "resolved"
    /\ burnRange[1] <= spotTick.val
    /\ spotTick.val < burnRange[2]

\* The snapshot spot tick is known and lies at or above / below the range
AboveRange == spotTick.st = "resolved" /\ spotTick.val >= burnRange[2]

BelowRange == spotTick.st = "resolved" /\ spotTick.val < burnRange[1]

\* A call of m has ended
Ended(m) == calls[m].st \in {"returned", "threw"}

Returned(m) == calls[m].st = "returned"

\* The methods that build a directive, and the directive a call of one built
Builders == {"rebal", "simStatic"}

Built(m) == calls[m].ext.kind = "ok"

DirectiveOf(m) == calls[m].ext.val

\* The methods that construct a swap plan, and the plan a call constructed
Planners == {"swapOutput", "postBalance"}

Planned(m) == calls[m].ext.kind = "ok"

\* The pool legs of a directive's only hop
Legs(d) == d.hops[1].pools

\* The indices of the pool legs that carry a burn, a configured swap, a mint
BurnLegs(d) ==
    {i \in DOMAIN Legs(d) :
        \E k \in DOMAIN Legs(d)[i].concentrated :
            ~Legs(d)[i].concentrated[k].isAdd}

SwapLegs(d) ==
    {i \in DOMAIN Legs(d) :
        Legs(d)[i].chain.swapDefer \/ Legs(d)[i].swap.rollType # 0
            \/ Legs(d)[i].swap.qty # 0}

MintLegs(d) ==
    {i \in DOMAIN Legs(d) :
        \/ Legs(d)[i].ambient.isAdd
        \/ \E k \in DOMAIN Legs(d)[i].concentrated :
                Legs(d)[i].concentrated[k].isAdd}

-----------------------------------------------------------------------------
(* C1 *)

\* C1 as stated: whenever the snapshot spot tick is inside the burn range,
\* every public operation that has been called has failed with the
\* position-not-out-of-range error, and nothing went to the settlement
\* contract.
C1_AllFailInRange ==
    InRange =>
        /\ \A m \in Methods :
              calls[m].st # "idle" =>
                  /\ calls[m].st = "threw"
                  /\ calls[m].res = Err(PositionNotOutOfRange)
        /\ dexLog = <<>>

\* C1 amended: whenever the snapshot spot tick is inside the burn range, no
\* public operation other than balancePercent on an ambient mint target
\* returns a value or a directive; each one called has failed, with the
\* position-not-out-of-range error unless the spot price read failed, in
\* which case balancePercent and convertCollateral of a range mint target
\* fail with that read's error; balancePercent on an ambient mint target
\* returns 0.5.
C1_FailInRangeButAmbientBalance ==
    InRange =>
        /\ \A m \in Methods :
              calls[m].st # "idle" =>
                  IF m = "balancePercent" /\ mintRange = AMBIENT
                  THEN calls[m].st = "returned" /\ calls[m].res = Ok(50000)
                  ELSE /\ calls[m].st = "threw"
                       /\ \/ calls[m].res = Err(PositionNotOutOfRange)
                          \/ /\ spotPrice.st = "rejected"
                             /\ mintRange # AMBIENT
                             /\ m \in {"balancePercent", "convertCollateral"}
                             /\ calls[m].res = Err(SpotPriceFailure)
        /\ dexLog = <<>>

\* Witness of C1: in range, ambient target, balancePercent has returned and
\* simStatic has failed with the position-not-out-of-range error
C1_Witness ==
    /\ InRange
    /\ mintRange = AMBIENT
    /\ calls["balancePercent"].st = "returned"
    /\ calls["simStatic"].res = Err(PositionNotOutOfRange)

-----------------------------------------------------------------------------
(* C2 *)

\* C2: balancePercent() for an ambient mint target returns exactly 0.5,
\* whatever the spot price, the spot tick (known or not, in range or not),
\* the burn range and the liquidity.
C2_AmbientBalanceIsHalf ==
    (mintRange = AMBIENT /\ calls["balancePercent"].st # "idle") =>
        /\ calls["balancePercent"].st = "returned"
        /\ calls["balancePercent"].res = Ok(50000)

\* Witness of C2: balancePercent has returned for an ambient target whose
\* position is still in range
C2_Witness ==
    /\ mintRange = AMBIENT
    /\ InRange
    /\ Returned("balancePercent")

-----------------------------------------------------------------------------
(* C3 *)

\* C3: for an out-of-range position, every mint target and every impact in
\* [0,1], the integer convertCollateral returned plus the integer mintInput
\* handed to the display conversion is currentCollateral exactly.
C3_ConvertPlusRemainder ==
    (/\ 0 <= impact /\ impact <= Unit
     /\ Returned("convertCollateral")
     /\ Returned("mintInput")) =>
        /\ IsOk(currentCollateral)
        /\ calls["convertCollateral"].res.val
              + calls["mintInput"].res.val.units = currentCollateral.val

\* Witness of C3: both have returned and the division by 10000 was inexact
C3_Witness ==
    /\ 0 <= impact /\ impact <= Unit
    /\ Returned("convertCollateral")
    /\ Returned("mintInput")
    /\ calls["convertCollateral"].res.val * BasisPoints
          # currentCollateral.val * swapFraction.val
    /\ calls["mintInput"].res.val.units > 0

-----------------------------------------------------------------------------
(* C4 *)

\* C4 as stated: for any mint target and any impact option, swapFraction is
\* an integer in [0, 10000], and 10000 whenever balancePercent() + impact
\* >= 1.0.
C4_FractionInRangeAnyImpact ==
    \A m \in Builders :
        Built(m) =>
            /\ swapFraction.val \in 0..10000
            /\ Legs(DirectiveOf(m))[1].swap.qty \in 0..10000
            /\ (balancePercent.val + impact >= Unit) =>
                    swapFraction.val = 10000

\* C4 amended: for any mint target and an impact option that is absent or
\* not negative, swapFraction is an integer in [0, 10000], and 10000
\* whenever balancePercent() + impact >= 1.0.
C4_FractionInRange ==
    (IsOk(swapFraction) /\ (impactOpt = NoImpact \/ impactOpt[1] >= 0)) =>
        /\ swapFraction.val \in 0..10000
        /\ (balancePercent.val + impact >= Unit) => swapFraction.val = 10000
        /\ \A m \in Builders :
              Built(m) => Legs(DirectiveOf(m))[1].swap.qty \in 0..10000

\* Witness of C4: a directive was built whose swap quantity is the clamped
\* 10000, from a balance of 0.5 and an impact of 0.6
C4_Witness ==
    /\ Built("simStatic")
    /\ impactOpt = <<60000>>
    /\ balancePercent = Ok(50000)
    /\ Legs(DirectiveOf("simStatic"))[1].swap.qty = 10000

-----------------------------------------------------------------------------
(* C5 *)

\* C5: in every directive the planner builds the burn is on a pool leg not
\* after the swap's, which is before the mint's; there are exactly two pool
\* legs, of the same pool index, the first with the burn and the swap, the
\* second with the mint; open.limitQty and the settlement leg's limitQty
\* are 0.
C5_DirectiveOrder ==
    \A m \in Builders :
        Built(m) =>
            LET d == DirectiveOf(m)
            IN  /\ Len(d.hops) = 1
                /\ Len(Legs(d)) = 2
                /\ Legs(d)[1].poolIdx = Legs(d)[2].poolIdx
                /\ BurnLegs(d) = {1}
                /\ SwapLegs(d) = {1}
                /\ MintLegs(d) = {2}
                /\ \A b \in BurnLegs(d), w \in SwapLegs(d), t \in MintLegs(d) :
                        b <= w /\ w < t
                /\ d.open.limitQty = 0
                /\ d.hops[1].settlement.limitQty = 0

\* Witness of C5: rebal built a directive for a range mint target and its
\* transaction was accepted
C5_Witness ==
    /\ Built("rebal")
    /\ Returned("rebal")
    /\ mintRange # AMBIENT
    /\ Len(Legs(DirectiveOf("rebal"))[2].concentrated) = 1

-----------------------------------------------------------------------------
(* C6 *)

\* C6: the direction is a total function of the spot tick and the burn
\* range: true exactly when spotTick >= upperTick, false exactly when
\* spotTick < lowerTick, the in-range failure exactly when
\* lowerTick <= spotTick < upperTick.
C6_DirectionTotal ==
    spotTick.st = "resolved" =>
        /\ (isBaseOutOfRange = Ok(TRUE)) <=> (spotTick.val >= burnRange[2])
        /\ (isBaseOutOfRange = Ok(FALSE)) <=> (spotTick.val < burnRange[1])
        /\ (isBaseOutOfRange = Err(PositionNotOutOfRange))
              <=> (burnRange[1] <= spotTick.val /\ spotTick.val < burnRange[2])
        /\ Ended("currentCollateral") =>
              ((calls["currentCollateral"].res = Err(PositionNotOutOfRange))
                  <=> (burnRange[1] <= spotTick.val
                          /\ spotTick.val < burnRange[2]))
        /\ \A m \in Builders :
              Built(m) =>
                  (Legs(DirectiveOf(m))[1].swap.isBuy
                      <=> spotTick.val >= burnRange[2])

\* Witness of C6: the spot tick is the upper tick itself and the position
\* counted as out of range, base side
C6_Witness ==
    /\ spotTick.st = "resolved"
    /\ spotTick.val = burnRange[2]
    /\ Returned("currentCollateral")
    /\ Built("simStatic")
    /\ Legs(DirectiveOf("simStatic"))[1].swap.isBuy

-----------------------------------------------------------------------------
(* C7 *)

\* C7: at or above the burn range the planner sells base and buys quote
\* (the directive opens on base and hops to quote); below it, it sells
\* quote and buys base; swapOutput's plan and the directive use the same
\* order.
C7_PivotOrder ==
    LET sell == IF AboveRange THEN BaseToken ELSE QuoteToken
        buy  == IF AboveRange THEN QuoteToken ELSE BaseToken
    IN  /\ \A m \in Builders :
              Built(m) =>
                  /\ AboveRange \/ BelowRange
                  /\ DirectiveOf(m).open.token = sell
                  /\ DirectiveOf(m).hops[1].settlement.token = buy
        /\ \A m \in Planners :
              Planned(m) =>
                  /\ AboveRange \/ BelowRange
                  /\ calls[m].ext.val.sellToken = sell
                  /\ calls[m].ext.val.buyToken = buy

\* Witness of C7: below the range, swapOutput planned a sale of quote and a
\* directive opening on quote was built
C7_Witness ==
    /\ BelowRange
    /\ Planned("swapOutput")
    /\ calls["swapOutput"].ext.val.sellToken = QuoteToken
    /\ Built("simStatic")
    /\ DirectiveOf("simStatic").open.token = QuoteToken
    /\ DirectiveOf("simStatic").hops[1].settlement.token = BaseToken

-----------------------------------------------------------------------------
(* C8 *)

\* The price a directive's swap limit encodes, in units of 1/(1000 * Unit)
LimitOf(m) == Legs(DirectiveOf(m))[1].swap.limitPrice.crocPriceOf

\* C8 as stated: the swap's limit price is the snapshot spot price times
\* (1 + impact) when base is sold and times (1 - impact) when it is bought,
\* and is never tighter than spot in the direction of the trade.
C8_LimitNeverTighter ==
    \A m \in Builders :
        Built(m) =>
            /\ AboveRange => LimitOf(m) = spotPrice.val * (Unit + impact)
            /\ BelowRange => LimitOf(m) = spotPrice.val * (Unit - impact)
            /\ AboveRange => LimitOf(m) >= spotPrice.val * Unit
            /\ BelowRange => LimitOf(m) <= spotPrice.val * Unit

\* C8 amended: the swap's limit price is the snapshot spot price times
\* (1 + impact) when base is sold and times (1 - impact) when it is bought;
\* for an impact that is not negative it is never tighter than spot in the
\* direction of the trade.
C8_LimitPrice ==
    \A m \in Builders :
        Built(m) =>
            /\ AboveRange => LimitOf(m) = spotPrice.val * (Unit + impact)
            /\ BelowRange => LimitOf(m) = spotPrice.val * (Unit - impact)
            /\ (AboveRange /\ impact >= 0) =>
                    LimitOf(m) >= spotPrice.val * Unit
            /\ (BelowRange /\ impact >= 0) =>
                    LimitOf(m) <= spotPrice.val * Unit

\* Witness of C8: below the range with impact 0.18 the limit is 0.82 of the
\* spot price
C8_Witness ==
    /\ BelowRange
    /\ impact = 18000
    /\ Built("rebal")
    /\ LimitOf("rebal") = spotPrice.val * 82000

-----------------------------------------------------------------------------
(* C9 *)

\* C9: for an ambient mint target the swap fraction is min(0.5 + impact,
\* 1.0) in units of 1/10000; with burn range [100,200], spot tick 250 and
\* impact 0.02 the direction is base-out-of-range and the fraction 5200.
C9_AmbientFraction ==
    \A m \in Builders :
        (Built(m) /\ mintRange = AMBIENT) =>
            /\ Legs(DirectiveOf(m))[1].swap.qty
                  = (Min(50000 + impact, Unit) * 10000) \div Unit
            /\ (burnRange = <<100, 200>> /\ spotTick.val = 250
                    /\ impact = 2000) =>
                  /\ isBaseOutOfRange = Ok(TRUE)
                  /\ Legs(DirectiveOf(m))[1].swap.qty = 5200

\* The scenario of C9 alone, which the code meets
C9_Scenario ==
    /\ mintRange = AMBIENT
    /\ burnRange = <<100, 200>>
    /\ spotTick.val = 250
    /\ impact = 2000
    /\ isBaseOutOfRange = Ok(TRUE)
    /\ Built("simStatic")
    /\ Legs(DirectiveOf("simStatic"))[1].swap.qty = 5200

-----------------------------------------------------------------------------
(* C10 *)

\* The results that the five stages decide
StageMethods == {"balancePercent", "currentCollateral", "convertCollateral",
                 "mintInput"}

\* C10: each of the two promises settles once and keeps its value, and under
\* every interleaving of calls with pool price changes each result already
\* returned is the one the stages give from those two reads now, so the
\* results of one instance agree with each other.
C10_OneSnapshot ==
    /\ [][/\ spotPrice.st # "pending" => spotPrice' = spotPrice
          /\ spotTick.st # "pending" => spotTick' = spotTick]_vars
    /\ [](/\ \A m \in StageMethods : Ended(m) => calls[m].res = Outcome(m)
          /\ \A m \in Builders : Built(m) => calls[m].ext = formatDirective
          /\ \A m \in Planners : Planned(m) => calls[m].ext = swapPlan
          /\ (Returned("currentCollateral") /\ Returned("convertCollateral")) =>
                calls["convertCollateral"].res.val
                    = BigDiv(calls["currentCollateral"].res.val
                                * swapFraction.val, 10000)
          /\ \A m \in Builders :
                (Built(m) /\ Returned("currentCollateral")) =>
                    /\ Legs(DirectiveOf(m))[1].swap.isBuy
                          = (spotTick.val >= burnRange[2])
                    /\ LimitOf(m) = spotPrice.val * priceMult(
                                        spotTick.val >= burnRange[2]))

\* Witness of C10: the pool's price has moved away from the snapshot and two
\* calls have returned since
C10_Witness ==
    /\ moves > 0
    /\ spotPrice.st = "resolved"
    /\ PoolStates[pool].price # spotPrice.val
    /\ PoolStates[pool].tick # spotTick.val
    /\ Returned("currentCollateral")
    /\ Returned("convertCollateral")

-----------------------------------------------------------------------------
(* C11 *)

\* C11: the spot price and the spot tick a planner holds reflect the same
\* pool snapshot: once both reads are answered there is a state of the pool
\* that had this price and this tick together, whatever pool price changes
\* interleave with the construction.
C11_SameSnapshot ==
    (spotPrice.st = "resolved" /\ spotTick.st = "resolved") =>
        \E i \in DOMAIN PoolStates :
            /\ PoolStates[i].price = spotPrice.val
            /\ PoolStates[i].tick = spotTick.val

\* The case C11 is about: the pool's price changed between the answers to
\* the two reads of lines 59 and 60
C11_Scenario ==
    /\ moves > 0
    /\ spotPrice.st = "resolved"
    /\ spotTick.st = "resolved"
    /\ PoolStates[pool].price # spotPrice.val
    /\ PoolStates[pool].tick = spotTick.val

-----------------------------------------------------------------------------
(* C12 *)

\* The collateral and swap computations
Computations == {"concDepositBalance", "baseTokenForConcLiq",
                 "quoteTokenForConcLiq", "calcImpact"}

\* C12: for an in-range position, a public operation that fails with the
\* position-not-out-of-range error has called none of concDepositBalance,
\* baseTokenForConcLiq, quoteTokenForConcLiq and the swap-impact calculator
\* before failing, and no gas estimation or submission has been made.
C12_FailureBeforeComputation ==
    \A m \in Methods :
        (InRange /\ calls[m].res = Err(PositionNotOutOfRange)) =>
            /\ \A f \in Computations : CopiesIn(f, work[m]) = 0
            /\ dexLog = <<>>

\* The case C12 is about: in range, a range mint target, balancePercent has
\* failed with the position-not-out-of-range error
C12_Scenario ==
    /\ InRange
    /\ mintRange # AMBIENT
    /\ calls["balancePercent"].res = Err(PositionNotOutOfRange)
    /\ calls["currentCollateral"].res = Err(PositionNotOutOfRange)
    /\ CopiesIn("baseTokenForConcLiq", work["currentCollateral"]) = 0

-----------------------------------------------------------------------------
(* C13 *)

\* The positions in the contract log of the calls of op
Ops(op) == {i \in DOMAIN dexLog : dexLog[i].op = op}

\* C13: in every execution of rebal() the transaction is submitted at most
\* once, with the directive rebal built, only after a gas estimate for that
\* directive was answered, and with the gas limit that estimate plus
\* GAS_PADDING; nothing is estimated or submitted when building fails,
\* nothing is submitted when the estimate fails, and a failed submission is
\* rebal's error with the one submission in the log.
C13_SubmitOnce ==
    /\ Cardinality(Ops("userCmd")) <= 1
    /\ Cardinality(Ops("estimateGas.userCmd")) <= 1
    /\ \A i \in Ops("userCmd") :
          /\ Built("rebal")
          /\ dexLog[i].path = LongPath
          /\ dexLog[i].data = encodeBytes(DirectiveOf("rebal"))
          /\ \E j \in Ops("estimateGas.userCmd") :
                /\ j < i
                /\ dexLog[j].data = dexLog[i].data
                /\ dexLog[j].answer.kind = "ok"
                /\ dexLog[i].gasLimit = dexLog[j].answer.val + GAS_PADDING
    /\ (calls["rebal"].st = "threw" /\ ~Built("rebal")) =>
          (Ops("estimateGas.userCmd") = {} /\ Ops("userCmd") = {})
    /\ calls["rebal"].res = Err(EstimateGasFailure) => Ops("userCmd") = {}
    /\ calls["rebal"].res = Err(SubmissionFailure) =>
          \A i \in Ops("userCmd") : dexLog[i].answer = Err(SubmissionFailure)
    /\ Returned("rebal") =>
          \E i \in Ops("userCmd") : dexLog[i].answer = calls["rebal"].res

\* Witness of C13: the submission failed after an estimate of 250000, and
\* rebal ended with that error and one submission with gas limit 280000
C13_Witness ==
    /\ calls["rebal"].st = "threw"
    /\ calls["rebal"].res = Err(SubmissionFailure)
    /\ Cardinality(Ops("userCmd")) = 1
    /\ \E i \in Ops("userCmd") : dexLog[i].gasLimit = 280000

-----------------------------------------------------------------------------
(* C14 *)

\* The operations whose result depends on the two reads of the constructor:
\* all but balancePercent of an ambient mint target
ReadsSnapshot(m) == ~(m = "balancePercent" /\ mintRange = AMBIENT)

\* The operations that await the spot price before the direction
PriceFirst(m) ==
    mintRange # AMBIENT /\ m \in {"balancePercent", "convertCollateral"}

\* The error of the first await that fails in the body of m
FirstError(m) ==
    IF PriceFirst(m)
    THEN IF spotPrice.st = "rejected" THEN SpotPriceFailure
         ELSE IF spotTick.st = "rejected" THEN SpotTickFailure
         ELSE PositionNotOutOfRange
    ELSE IF spotTick.st = "rejected" THEN SpotTickFailure
         ELSE IF InRange THEN PositionNotOutOfRange
         ELSE SpotPriceFailure

\* The errors of the constructor's reads that have failed
FailedReads ==
    (IF spotPrice.st = "rejected" THEN {Err(SpotPriceFailure)} ELSE {}) \cup
    (IF spotTick.st = "rejected" THEN {Err(SpotTickFailure)} ELSE {})

\* What C14 says of the swap-impact simulation and of the gas estimate: a
\* call that ran the simulation ends with the simulation's failure or with a
\* quantity the simulation gave, and a failed estimate is rebal's error, with
\* one estimate asked and nothing submitted.
SimulationAndEstimateSurface ==
    /\ \A m \in Planners :
          (Planned(m) /\ Ended(m)) =>
              \/ calls[m].res = Err(CalcImpactFailure)
              \/ /\ Returned(m)
                 /\ \E i \in DOMAIN PoolStates :
                       LET plan == calls[m].ext.val
                           qty  == calcImpactBuyQty(plan.sellToken,
                                       plan.buyToken, plan.qty,
                                       PoolStates[i].price)
                       IN  IF m = "swapOutput"
                           THEN calls[m].res.val = qty
                           ELSE qty.units \in
                                   {calls[m].res.val[1], calls[m].res.val[2]}
    /\ \A i \in Ops("estimateGas.userCmd") :
          dexLog[i].answer.kind = "err" =>
              /\ calls["rebal"].st = "threw"
              /\ calls["rebal"].res = dexLog[i].answer
              /\ Cardinality(Ops("estimateGas.userCmd")) = 1
              /\ Ops("userCmd") = {}

\* C14 as stated: when a read of the constructor has failed, every operation
\* called whose result depends on it has failed with the error of a failed
\* read; likewise for the swap-impact simulation and the gas estimate.
C14_SameReadError ==
    /\ \A m \in Methods :
          (calls[m].st # "idle" /\ ReadsSnapshot(m) /\ FailedReads # {}) =>
              /\ calls[m].st = "threw"
              /\ calls[m].res \in FailedReads
    /\ SimulationAndEstimateSurface

\* C14 amended: when a read of the constructor has failed, every operation
\* called whose result depends on it has failed, never returning a value,
\* with the error of the first await of its body that fails: a failed
\* read's error, or the position-not-out-of-range error when the tick was
\* read, is in range and is checked before the price is awaited.  A failed
\* read stays failed (it is not issued again).  Likewise for the swap-impact
\* simulation and the gas estimate.
C14_FirstFailureSurfaces ==
    /\ [][/\ spotPrice.st = "rejected" => spotPrice' = spotPrice
          /\ spotTick.st = "rejected" => spotTick' = spotTick]_vars
    /\ [](/\ \A m \in Methods :
                (calls[m].st # "idle" /\ ReadsSnapshot(m)
                    /\ FailedReads # {}) =>
                    /\ calls[m].st = "threw"
                    /\ calls[m].res = Err(FirstError(m))
          /\ SimulationAndEstimateSurface)

\* Witness of C14: the price read failed and the tick read did not, out of
\* range; currentCollateral and rebal have failed with the price read's error
C14_Witness ==
    /\ spotPrice.st = "rejected"
    /\ AboveRange
    /\ calls["currentCollateral"].res = Err(SpotPriceFailure)
    /\ calls["rebal"].res = Err(SpotPriceFailure)

-----------------------------------------------------------------------------
(* C15 *)

\* The quantities the swap-impact simulation of a plan can answer with, one
\* for each live price of the pool
SwapOutputsOf(plan) ==
    {calcImpactBuyQty(plan.sellToken, plan.buyToken, plan.qty,
                      PoolStates[i].price).units : i \in DOMAIN PoolStates}

\* C15: postBalance() returns (baseAmount, quoteAmount): at or above the
\* burn range (base out of range) the first component is the un-swapped
\* remainder of mintInput and the second a swap output; below it (quote out
\* of range) the first is a swap output and the second the remainder.
C15_PostBalanceOrder ==
    Returned("postBalance") =>
        LET r    == calls["postBalance"].res.val
            plan == calls["postBalance"].ext.val
        IN  /\ AboveRange \/ BelowRange
            /\ AboveRange =>
                  /\ r[1] = mintInputUnits.val
                  /\ r[2] \in SwapOutputsOf(plan)
                  /\ plan.sellToken = BaseToken
            /\ BelowRange =>
                  /\ r[1] \in SwapOutputsOf(plan)
                  /\ r[2] = mintInputUnits.val
                  /\ plan.sellToken = QuoteToken

\* Witness of C15: below the range postBalance returned a pair whose second
\* component is the remainder, in quote, and whose first is no remainder
C15_Witness ==
    /\ BelowRange
    /\ Returned("postBalance")
    /\ calls["postBalance"].res.val[2] = mintInputUnits.val
    /\ calls["postBalance"].res.val[1] # mintInputUnits.val
    /\ calls["postBalance"].res.val[2]
          \notin SwapOutputsOf(calls["postBalance"].ext.val)
    /\ mintInput.val.token = QuoteToken

-----------------------------------------------------------------------------
(* C16 *)

\* concDepositBalance of the snapshot price against the mint range
RawFraction ==
    concDepositBalance(spotPrice.val, tickToPrice(mintRange[1]),
                       tickToPrice(mintRange[2]))

\* C16 as stated: for a range mint target and an out-of-range position,
\* balancePercent() never fails and returns the raw fraction when quote is
\* out of range and 1 minus it when base is out of range.
C16_RangeBalanceNeverFails ==
    (/\ mintRange # AMBIENT
     /\ AboveRange \/ BelowRange
     /\ Ended("balancePercent")) =>
        /\ Returned("balancePercent")
        /\ calls["balancePercent"].res.val =
              (IF BelowRange THEN RawFraction ELSE Unit - RawFraction)

\* C16 amended: for a range mint target and an out-of-range position,
\* balancePercent() fails only when the read of the spot price failed, and
\* then with that read's error; otherwise it returns the raw fraction when
\* quote is out of range and 1 minus it when base is out of range.
C16_RangeBalance ==
    (/\ mintRange # AMBIENT
     /\ AboveRange \/ BelowRange
     /\ Ended("balancePercent")) =>
        IF spotPrice.st = "rejected"
        THEN calls["balancePercent"].res = Err(SpotPriceFailure)
        ELSE /\ Returned("balancePercent")
             /\ calls["balancePercent"].res.val =
                   (IF BelowRange THEN RawFraction ELSE Unit - RawFraction)

\* Witness of C16: above the burn range, inside the mint range [200, 250],
\* the raw fraction is 0.4 and balancePercent returned 0.6
C16_Witness ==
    /\ mintRange = <<200, 250>>
    /\ AboveRange
    /\ spotPrice.st = "resolved"
    /\ RawFraction = 40000
    /\ calls["balancePercent"].res = Ok(60000)

-----------------------------------------------------------------------------
(* C17 *)

\* C17: in every directive built, the second pool leg (of the chain's pool
\* index) carries an ambient mint exactly when the mint target is ambient,
\* and otherwise one range mint over the target's two ticks and no ambient
\* mint; the mint's quantity is 0 and its roll type 5, and the leg carries
\* no swap.
C17_MintLeg ==
    \A m \in Builders :
        Built(m) =>
            LET leg == Legs(DirectiveOf(m))[2]
            IN  /\ Len(Legs(DirectiveOf(m))) = 2
                /\ leg.poolIdx = PoolIndex
                /\ leg.swap = emptyPool(PoolIndex).swap
                /\ (mintRange = AMBIENT) <=> leg.ambient.isAdd
                /\ (mintRange = AMBIENT) =>
                      /\ leg.ambient.liquidity = 0
                      /\ leg.ambient.rollType = 5
                      /\ leg.concentrated = <<>>
                /\ (mintRange # AMBIENT) =>
                      /\ leg.ambient = emptyPool(PoolIndex).ambient
                      /\ Len(leg.concentrated) = 1
                      /\ leg.concentrated[1].isAdd
                      /\ leg.concentrated[1].lowTick = mintRange[1]
                      /\ leg.concentrated[1].highTick = mintRange[2]
                      /\ leg.concentrated[1].liquidity = 0
                      /\ leg.concentrated[1].rollType = 5

\* Witness of C17: a directive with an ambient mint was built by simStatic
\* and one by rebal
C17_Witness ==
    /\ mintRange = AMBIENT
    /\ Built("simStatic")
    /\ Built("rebal")
    /\ Legs(DirectiveOf("rebal"))[2].ambient.isAdd
    /\ Legs(DirectiveOf("rebal"))[2].ambient.rollType = 5

-----------------------------------------------------------------------------
(* C18 *)

\* C18: simStatic makes one call on the settlement contract, the static
\* call of userCmd on the long path with the directive it built, and none
\* when building the directive fails; it never estimates gas or submits:
\* every gas estimate and every submission in the log is rebal's, so there
\* is none while rebal has not been called.
C18_SimStaticOnlySimulates ==
    /\ Cardinality(Ops("callStatic.userCmd")) =
          (IF Built("simStatic") THEN 1 ELSE 0)
    /\ \A i \in Ops("callStatic.userCmd") :
          /\ dexLog[i].path = LongPath
          /\ dexLog[i].data = encodeBytes(DirectiveOf("simStatic"))
          /\ Ended("simStatic") => dexLog[i].answer = calls["simStatic"].res
    /\ Cardinality(Ops("estimateGas.userCmd")) =
          (IF Built("rebal") THEN 1 ELSE 0)
    /\ Cardinality(Ops("userCmd")) <= Cardinality(Ops("estimateGas.userCmd"))
    /\ calls["rebal"].st = "idle" =>
          \A i \in DOMAIN dexLog : dexLog[i].op = "callStatic.userCmd"

\* Witness of C18: simStatic has returned its simulated result, rebal was
\* never called, and the log holds the one static call
C18_Witness ==
    /\ Returned("simStatic")
    /\ calls["rebal"].st = "idle"
    /\ Len(dexLog) = 1
    /\ dexLog[1].op = "callStatic.userCmd"
    /\ dexLog[1].answer = Ok("simulated")

-----------------------------------------------------------------------------
(* C19 *)

\* The five derived stages
Stages == {"isBaseOutOfRange", "currentCollateral", "balancePercent",
           "swapFraction", "limitPrice"}

\* How often the calls of the methods ms have executed f
RECURSIVE TimesComputed(_, _)
TimesComputed(f, ms) ==
    IF ms = {} THEN 0
    ELSE LET m == CHOOSE x \in ms : TRUE
         IN  CopiesIn(f, work[m]) + TimesComputed(f, ms \ {m})

\* C19: each of the five derived stages is computed at most once per
\* planner instance, whatever public methods are called.
C19_StagesComputedOnce ==
    \A f \in Stages : TimesComputed(f, Methods) <= 1

\* The case C19 is about: two public calls have returned, each of which
\* needed the out-of-range direction and the current collateral
C19_Scenario ==
    /\ Returned("currentCollateral")
    /\ Returned("mintInput")
    /\ TimesComputed("currentCollateral", Methods) = 3
    /\ calls["mintInput"].res.val.units <= calls["currentCollateral"].res.val

-----------------------------------------------------------------------------
(* C20 *)

\* C20: in every directive built the swap sub-directive is on the first
\* pool leg, the one with the burn, and not on the second; that leg has
\* swapDefer set, the swap's roll type is 4 and its quantity swapFraction,
\* and isBuy and inBaseQty are both true exactly when base is out of range
\* (the snapshot tick at or above the burn range).
C20_SwapOnBurnLeg ==
    \A m \in Builders :
        Built(m) =>
            LET d == DirectiveOf(m)
            IN  /\ BurnLegs(d) = {1}
                /\ SwapLegs(d) = {1}
                /\ Legs(d)[1].chain.swapDefer
                /\ Legs(d)[1].swap.rollType = 4
                /\ Legs(d)[1].swap.qty = swapFraction.val
                /\ Legs(d)[1].swap.isBuy = AboveRange
                /\ Legs(d)[1].swap.inBaseQty = AboveRange
                /\ AboveRange \/ BelowRange
                /\ Legs(d)[2].swap = emptyPool(PoolIndex).swap
                /\ ~Legs(d)[2].chain.swapDefer

\* Witness of C20: below the range with the default impact and an ambient
\* target, the swap of the built directive has quantity 5200 and both flags
\* false
C20_Witness ==
    /\ BelowRange
    /\ mintRange = AMBIENT
    /\ impactOpt = NoImpact
    /\ Built("rebal")
    /\ Legs(DirectiveOf("rebal"))[1].swap.qty = 5200
    /\ ~Legs(DirectiveOf("rebal"))[1].swap.isBuy
    /\ ~Legs(DirectiveOf("rebal"))[1].swap.inBaseQty

-----------------------------------------------------------------------------
(* C21 *)

\* C21: for an out-of-range position and an impact in [0,1],
\* 0 <= convertCollateral() <= currentCollateral(): the remainder mintInput
\* shows is not negative and no swap plan sells more than the freed
\* collateral.
C21_ConvertWithinCollateral ==
    (0 <= impact /\ impact <= Unit) =>
        /\ Returned("convertCollateral") =>
              /\ IsOk(currentCollateral)
              /\ 0 <= calls["convertCollateral"].res.val
              /\ calls["convertCollateral"].res.val <= currentCollateral.val
        /\ Returned("mintInput") => calls["mintInput"].res.val.units >= 0
        /\ \A m \in Planners :
              Planned(m) =>
                  /\ 0 <= calls[m].ext.val.qty
                  /\ calls[m].ext.val.qty <= currentCollateral.val

\* Witness of C21: with impact 0.6 and an ambient target the fraction is
\* the clamped 10000, convertCollateral returned all of the collateral and
\* mintInput a remainder of 0
C21_Witness ==
    /\ impactOpt = <<60000>>
    /\ mintRange = AMBIENT
    /\ Returned("convertCollateral")
    /\ Returned("mintInput")
    /\ calls["convertCollateral"].res.val = currentCollateral.val
    /\ calls["convertCollateral"].res.val > 0
    /\ calls["mintInput"].res.val.units = 0

-----------------------------------------------------------------------------
(* C22 *)

\* The impact the caller means: the supplied value, the default 0.02 only
\* when none is supplied
MeantImpact ==
    IF impactOpt = NoImpact THEN DEFAULT_REBAL_SLIPPAGE ELSE impactOpt[1]

\* C22: for every supplied impact in [0,1], 0 included, and for no impact
\* supplied, the swap quantity and the swap limit price of every directive
\* built and the slippage of every swap plan constructed are those of the
\* impact the caller means.
C22_ImpactAsSupplied ==
    (0 <= MeantImpact /\ MeantImpact <= Unit) =>
        /\ \A m \in Builders :
              Built(m) =>
                  /\ Legs(DirectiveOf(m))[1].swap.qty =
                        floorOfFraction(balancePercent.val, MeantImpact)
                  /\ LimitOf(m) = spotPrice.val *
                        (IF AboveRange THEN Unit + MeantImpact
                                       ELSE Unit - MeantImpact)
        /\ \A m \in Planners :
              Planned(m) => calls[m].ext.val.slippage = MeantImpact

\* The case C22 is about: the caller supplied impact 0, and a directive was
\* built and a swap plan constructed
C22_Scenario ==
    /\ impactOpt = <<0>>
    /\ mintRange = AMBIENT
    /\ BelowRange
    /\ Built("rebal")
    /\ Planned("swapOutput")
    /\ Legs(DirectiveOf("rebal"))[1].swap.qty = 5200
    /\ calls["swapOutput"].ext.val.slippage = DEFAULT_REBAL_SLIPPAGE

-----------------------------------------------------------------------------
(* The convert page: its quote effect, the handlers that re-run it, the    *)
(* answers of the quote requests and the confirm button                    *)

\* user actions on the page's inputs during one visit
MaxInputChanges == 3

\* presses of the confirm button during one visit
MaxConversions == 1

\* the amounts the user types; 0 is the emptied input
Amounts == {1, 2}

\* useGetMaximumAvailableAmount(sourceToken, destinationToken): the balance
maximumAmountToConvert == 2

\* smartRouter.getBestQuote(chain, source, destination, amount): the best
\* route for these inputs and the quote it gives for them
getBestQuote(src, dst, amt) ==
    [route |-> <<src, dst, amt>>, quote |-> <<src, dst, amt>>]

\* smartRouter.getDestination(chain, source): the tokens the destination
\* select offers for the current source token
DestinationTokens == Tokens \ {sourceToken}

\* One run of the quote effect up to its first await: it empties the quote
\* and the route, and asks for nothing when an input is missing
QuoteEffect(src, dst, amt) ==
    /\ quote' = NoQuote
    /\ route' = NoRoute
    /\ requests' =
         IF src = "" \/ dst = "" \/ amt <= 0
         THEN requests
         ELSE Append(requests,
                     [src |-> src, dst |-> dst, amt |-> amt, st |-> "assets"])

\* The render that follows a change of the inputs: the quote effect runs
\* when one of its dependencies changed
Render(src, dst, amt) ==
    /\ sourceToken' = src
    /\ destinationToken' = dst
    /\ weiAmount' = amt
    /\ IF <<src, dst, amt>> # <<sourceToken, destinationToken, weiAmount>>
       THEN QuoteEffect(src, dst, amt)
       ELSE UNCHANGED <<quote, route, requests>>

\* One more user action on the inputs
UserActs ==
    /\ inputChanges < MaxInputChanges
    /\ inputChanges' = inputChanges + 1

\* The user edits the amount input
setAmount(value) ==
    /\ UserActs
    /\ value # weiAmount
    /\ Render(sourceToken, destinationToken, value)
    /\ UNCHANGED <<hasQuoteError, conversions, planner>>

\* The user presses the maximum button
onMaximumAmountClick ==
    /\ UserActs
    /\ maximumAmountToConvert # weiAmount
    /\ Render(sourceToken, destinationToken, maximumAmountToConvert)
    /\ UNCHANGED <<hasQuoteError, conversions, planner>>

\* The user presses the switch button
onSwitchClick ==
    /\ UserActs
    /\ destinationToken # ""
    /\ hasQuoteError' = FALSE
    /\ Render(destinationToken, sourceToken, 0)
    /\ UNCHANGED <<conversions, planner>>

\* The user picks another source token
onSourceTokenChange(value) ==
    /\ UserActs
    /\ value # sourceToken
    /\ hasQuoteError' = FALSE
    /\ Render(value, destinationToken, 0)
    /\ UNCHANGED <<conversions, planner>>

\* The user picks another destination token
onDestinationTokenChange(value) ==
    /\ UserActs
    /\ value # destinationToken
    /\ hasQuoteError' = FALSE
    /\ Render(sourceToken, value, weiAmount)
    /\ UNCHANGED <<conversions, planner>>

\* A run of the quote effect gets the two tokens' details, and asks the
\* router for the best quote of the inputs it started with; or the lookup
\* fails and the run ends in its catch
getAssetDataSettles(i) ==
    /\ requests[i].st = "assets"
    /\ \/ /\ requests' = [requests EXCEPT ![i].st = "quote"]
          /\ UNCHANGED hasQuoteError
       \/ /\ requests' = [requests EXCEPT ![i].st = "failed"]
          /\ hasQuoteError' = TRUE
    /\ UNCHANGED <<sourceToken, destinationToken, weiAmount, quote, route,
                   conversions, inputChanges, planner>>

\* The router answers a run of the quote effect: the run stores the route
\* and the quote it was given; or the router fails and the run ends in its
\* catch
getBestQuoteSettles(i) ==
    /\ requests[i].st = "quote"
    /\ \/ /\ requests' = [requests EXCEPT ![i].st = "done"]
          /\ LET result ==
                   getBestQuote(requests[i].src, requests[i].dst,
                                requests[i].amt)
             IN  /\ route' = result.route
                 /\ quote' = result.quote
                 /\ hasQuoteError' = FALSE
       \/ /\ requests' = [requests EXCEPT ![i].st = "failed"]
          /\ hasQuoteError' = TRUE
          /\ UNCHANGED <<quote, route>>
    /\ UNCHANGED <<sourceToken, destinationToken, weiAmount, conversions,
                   inputChanges, planner>>

\* The confirm button is disabled (a connected account, no maintenance)
isSubmitDisabled ==
    \/ weiAmount <= 0
    \/ weiAmount > maximumAmountToConvert
    \/ destinationToken = ""
    \/ route = NoRoute

\* The user presses the confirm button: the conversion gets the inputs and
\* the route of the current render
handleSubmit ==
    /\ ~isSubmitDisabled
    /\ Len(conversions) < MaxConversions
    /\ conversions' =
         Append(conversions,
                [src |-> sourceToken, dst |-> destinationToken,
                 amt |-> weiAmount, route |-> route, st |-> "sent"])
    /\ UNCHANGED <<sourceToken, destinationToken, weiAmount, quote, route,
                   hasQuoteError, requests, inputChanges, planner>>

\* A conversion's transaction succeeds: the amount input is emptied
onTransactionSuccess(i) ==
    /\ conversions[i].st = "sent"
    /\ conversions' = [conversions EXCEPT ![i].st = "succeeded"]
    /\ Render(sourceToken, destinationToken, 0)
    /\ UNCHANGED <<hasQuoteError, inputChanges, planner>>

\* A visit of the convert page; the planner is constructed and left alone
ConvertInit ==
    /\ Init
    /\ pool = 1
    /\ mintRange = AMBIENT
    /\ impactOpt = NoImpact

ConvertNext ==
    \/ \E value \in Amounts \cup {0} : setAmount(value)
    \/ onMaximumAmountClick
    \/ onSwitchClick
    \/ \E value \in Tokens : onSourceTokenChange(value)
    \/ \E value \in DestinationTokens : onDestinationTokenChange(value)
    \/ \E i \in DOMAIN requests : getAssetDataSettles(i)
    \/ \E i \in DOMAIN requests : getBestQuoteSettles(i)
    \/ handleSubmit
    \/ \E i \in DOMAIN conversions : onTransactionSuccess(i)

ConvertSpec == ConvertInit /\ [][ConvertNext]_vars

-----------------------------------------------------------------------------
(* C23 *)

\* the inputs of the current render
CurrentInputs == <<sourceToken, destinationToken, weiAmount>>

\* C23: whenever a route or a quote is stored on the convert page, it was
\* computed for the currently selected source token, destination token and
\* amount; a response to an older request never overwrites the state that
\* belongs to newer inputs.
C23_QuoteForCurrentInputs ==
    /\ route # NoRoute => route = getBestQuote(sourceToken, destinationToken,
                                               weiAmount).route
    /\ quote # NoQuote => quote = getBestQuote(sourceToken, destinationToken,
                                               weiAmount).quote

\* The confirm button was enabled with a route computed for other inputs,
\* and the conversion was handed that route
C23_Scenario ==
    \E i \in DOMAIN conversions :
        /\ conversions[i].route # NoRoute
        /\ conversions[i].route #
             getBestQuote(conversions[i].src, conversions[i].dst,
                          conversions[i].amt).route

=============================================================================
